---- MODULE Spec2Model ----
(***************************************************************************)
(* State-machine model of the MonoQ Bot RBI frontend controller            *)
(* (src/src/frontend/static/js/main.js): the submit handler, the polling   *)
(* interval with its retry counter, the result store inside                *)
(* #resultsContent and the three-phase cosmetic timeline.                  *)
(*                                                                         *)
(* JavaScript runs every handler and every continuation after an await to  *)
(* completion, so each action below is one such run-to-completion step.    *)
(***************************************************************************)
EXTENDS Integers, Sequences, FiniteSets, TLC

\* ------------------------------------------------------------------------
\* Program constants
\* ------------------------------------------------------------------------
MAX_RETRIES == 10

\* researchMessages, backtestMessages and debugMessages hold 5 messages each
ScriptLen == 5

\* PHASE_TIMINGS, in milliseconds
PHASE_TIMINGS == [research |-> 14000, backtest |-> 17000, debug |-> 12000]

PhaseOrder == <<"research", "backtest", "debug">>

PhaseNames == {PhaseOrder[i] : i \in 1..Len(PhaseOrder)}

\* ------------------------------------------------------------------------
\* Bounds of the model
\* ------------------------------------------------------------------------
\* number of form submissions in one behaviour
MaxSubmits == 2

\* probes of /results that may be awaiting their response at the same time
MaxInFlight == 2

\* distinct strategy_number values passed to updateResult directly (SpecStore)
MaxIds == 2

\* distinct strategy_number values the server reports to a probe
MaxPollIds == 1

\* longest results array of one /results response
MaxResults == 1

\* length of a sequence of direct updateResult calls (SpecStore)
MaxUpserts == 3

SubIds == 1..MaxSubmits

Ids == 1..MaxIds

Payloads == {"a", "b"}

\* ------------------------------------------------------------------------
\* Values
\* ------------------------------------------------------------------------
\* A ResultEntry as it arrives on the wire; payload stands for the fields the
\* template interpolates (link, strategy, backtest, files / error).
Entries == [strategy_number : Ids, status : {"success", "error"}, payload : Payloads]

PollEntries ==
    [strategy_number : 1..MaxPollIds, status : {"success", "error"}, payload : Payloads]

RECURSIVE SeqsUpTo(_, _)
SeqsUpTo(S, n) ==
    IF n = 0 THEN {<<>>}
    ELSE LET shorter == SeqsUpTo(S, n - 1)
         IN  shorter \cup {Append(s, e) : s \in {x \in shorter : Len(x) = n - 1}, e \in S}

ResultArrays == SeqsUpTo(PollEntries, MaxResults)

\* What one probe of /results can come back with.  "json" is an HTTP-ok
\* response with a parseable body (a body whose status is not 'success'
\* carries no results here); the other kinds throw inside the try.
Responses ==
    [kind : {"json"}, status : {"success"}, results : ResultArrays, is_complete : BOOLEAN]
    \cup [kind : {"json"}, status : {"pending"}, results : {<<>>}, is_complete : BOOLEAN]
    \cup [kind : {"httpError", "timeout", "netError"}, status : {"none"},
          results : {<<>>}, is_complete : {FALSE}]

\* Text of an element: <<wording, attempt number>>.
NoText == <<"", 0>>

DownloadText == <<"download", 0>>

ProcessingText == <<"processing", 0>>

\* Children of #resultsContent.  links are the <a class="text-purple-400">
\* elements inside a result node, each with its current text.
StatusNode(text) ==
    [tag |-> "status", id |-> 0, layout |-> "none", payload |-> "none",
     links |-> <<>>, errorAnimation |-> FALSE, text |-> text]

NoticeNode ==
    [tag |-> "notice", id |-> 0, layout |-> "none", payload |-> "none",
     links |-> <<>>, errorAnimation |-> FALSE, text |-> <<"notice", 0>>]

NewResultNode(id) ==
    [tag |-> "result", id |-> id, layout |-> "none", payload |-> "none",
     links |-> <<>>, errorAnimation |-> FALSE, text |-> NoText]

VARIABLES
    pollInterval,     \* the handle held by `let pollInterval` (0: undefined)
    timers,           \* handles of the intervals the browser still fires
    retryCount,       \* `let retryCount`
    spinnerHidden,    \* spinner.classList contains 'hidden'
    resultsContent,   \* children of #resultsContent, in document order
    nsub,             \* submissions made so far
    pending,          \* submissions awaiting the answer of POST /analyze
    probes,           \* number of probes of /results awaiting their response
    phaseClass,       \* per phase element: its 'active'/'phase-complete'/'phase-error' classes
    messages,         \* per phase element: children of its .progress-messages
    runs,             \* per submission: where its processPhase chain is suspended
    history,          \* entries passed to updateResult directly (SpecStore);
                      \* responses delivered to the probes so far (SpecTrace)
    last              \* the step taken last (observer, never read by the program)

vars == <<pollInterval, timers, retryCount, spinnerHidden, resultsContent, nsub,
          pending, probes, phaseClass, messages, runs, history, last>>

pollVars == <<pollInterval, timers, retryCount, spinnerHidden, resultsContent, probes>>

phaseVars == <<phaseClass, messages, runs>>

\* ------------------------------------------------------------------------
\* Result store: updateResult (main.js 109-172)
\* ------------------------------------------------------------------------
\* document.getElementById(`strategy-${n}`): index of the first node carrying
\* the id, 0 when there is none.
getElementById(rc, id) ==
    LET hits == {i \in 1..Len(rc) : rc[i].tag = "result" /\ rc[i].id = id}
    IN  IF hits = {} THEN 0 ELSE CHOOSE i \in hits : \A j \in hits : i <= j

\* The two innerHTML templates: the success layout carries two download links
\* of class text-purple-400, the error layout none and adds 'error-animation'.
Render(node, result) ==
    IF result.status = "success"
    THEN [node EXCEPT !.layout = "success", !.payload = result.payload,
                      !.links = <<DownloadText, DownloadText>>]
    ELSE [node EXCEPT !.layout = "error", !.payload = result.payload,
                      !.links = <<>>, !.errorAnimation = TRUE]

\* Variant: the lookup by id is skipped and a node is created on every call.
updateResult_AlwaysAppend(rc, result) ==
    LET rc1 == Append(rc, NewResultNode(result.strategy_number))
    IN  [rc1 EXCEPT ![Len(rc1)] = Render(rc1[Len(rc1)], result)]

\* Variant: a new node is inserted before the first child instead of appended.
updateResult_Prepend(rc, result) ==
    LET found == getElementById(rc, result.strategy_number)
        rc1   == IF found = 0
                 THEN <<NewResultNode(result.strategy_number)>> \o rc
                 ELSE rc
        i     == IF found = 0 THEN 1 ELSE found
    IN  [rc1 EXCEPT ![i] = Render(rc1[i], result)]

updateResult(rc, result) ==
    LET found == getElementById(rc, result.strategy_number)
        rc1   == IF found = 0
                 THEN Append(rc, NewResultNode(result.strategy_number))
                 ELSE rc
        i     == IF found = 0 THEN Len(rc1) ELSE found
    IN  [rc1 EXCEPT ![i] = Render(rc1[i], result)]

\* data.results.forEach(result => updateResult(result))
RECURSIVE updateResults(_, _)
updateResults(rc, results) ==
    IF results = <<>> THEN rc
    ELSE updateResults(updateResult(rc, Head(results)), Tail(results))

\* ------------------------------------------------------------------------
\* Status message inside #resultsContent
\* ------------------------------------------------------------------------
HasPurple(node) == node.tag = "status" \/ Len(node.links) > 0

\* resultsContent.querySelector('.text-purple-400'): the first descendant of
\* that class in document order; 0 when there is none.  A match inside node i
\* is the first link of that node.
querySelectorPurple(rc) ==
    LET hits == {i \in 1..Len(rc) : HasPurple(rc[i])}
    IN  IF hits = {} THEN 0 ELSE CHOOSE i \in hits : \A j \in hits : i <= j

RemoveAt(rc, i) == SubSeq(rc, 1, i - 1) \o SubSeq(rc, i + 1, Len(rc))

\* if (processingMsg) processingMsg.remove()   (main.js 264-267)
removeProcessingMsg(rc) ==
    LET i == querySelectorPurple(rc)
    IN  IF i = 0 THEN rc
        ELSE IF rc[i].tag = "status" THEN RemoveAt(rc, i)
        ELSE [rc EXCEPT ![i].links = Tail(@)]

\* existingStatus.innerHTML = ... else resultsContent.appendChild(statusMessage)
\* (main.js 303-308)
setStatusMessage(rc, text) ==
    LET i == querySelectorPurple(rc)
    IN  IF i = 0 THEN Append(rc, StatusNode(text))
        ELSE IF rc[i].tag = "status" THEN [rc EXCEPT ![i].text = text]
        ELSE [rc EXCEPT ![i].links = <<text>> \o Tail(@)]

\* showError: resultsContent.innerHTML = the notice  (main.js 318-325)
showError(rc) == <<NoticeNode>>

\* clearInterval(h): a handle that is not live is ignored
clearInterval(live, h) == live \ {h}

\* Variant: a timed-out probe is reported but not counted.
handlePollingError_TimeoutFree(message) ==
    LET n   == IF message = "still working" THEN retryCount ELSE retryCount + 1
        rc1 == setStatusMessage(resultsContent, <<message, n>>)
    IN  /\ retryCount' = n
        /\ IF n >= MAX_RETRIES
           THEN /\ timers' = clearInterval(timers, pollInterval)
                /\ spinnerHidden' = TRUE
                /\ resultsContent' = showError(rc1)
           ELSE /\ resultsContent' = rc1
                /\ UNCHANGED <<timers, spinnerHidden>>

\* handlePollingError(message)  (main.js 294-316)
handlePollingError(message) ==
    LET n   == retryCount + 1
        rc1 == setStatusMessage(resultsContent, <<message, n>>)
    IN  /\ retryCount' = n
        /\ IF n >= MAX_RETRIES
           THEN /\ timers' = clearInterval(timers, pollInterval)
                /\ spinnerHidden' = TRUE
                /\ resultsContent' = showError(rc1)
           ELSE /\ resultsContent' = rc1
                /\ UNCHANGED <<timers, spinnerHidden>>

\* Variant: the previous interval is not cleared.
startPolling_NoClear(h) ==
    /\ timers' = timers \cup {h}
    /\ pollInterval' = h

\* startPolling()  (main.js 241-292); h is the handle setInterval returns
startPolling(h) ==
    /\ timers' = (IF pollInterval # 0 THEN clearInterval(timers, pollInterval)
                  ELSE timers) \cup {h}
    /\ pollInterval' = h

\* ------------------------------------------------------------------------
\* Phase timeline: updatePhase, processPhase (main.js 72-106)
\* ------------------------------------------------------------------------
NoClasses == [active |-> FALSE, complete |-> FALSE, error |-> FALSE]

\* Variant: the other phases keep their 'active' class.
updatePhase_KeepsActive(cls, p, status) ==
    [q \in PhaseNames |->
        IF q = p
        THEN [active   |-> TRUE,
              complete |-> cls[q].complete \/ status = "complete",
              error    |-> cls[q].error \/ status = "error"]
        ELSE cls[q]]

updatePhase(cls, p, status) ==
    [q \in PhaseNames |->
        IF q = p
        THEN [active   |-> TRUE,
              complete |-> cls[q].complete \/ status = "complete",
              error    |-> cls[q].error \/ status = "error"]
        ELSE [cls[q] EXCEPT !.active = FALSE]]

\* const interval = timing / messages.length
Interval(p) == PHASE_TIMINGS[p] \div ScriptLen

RECURSIVE GCD(_, _)
GCD(a, b) == IF b = 0 THEN a ELSE GCD(b, a % b)

\* Granularity of the clock: every timer deadline is a multiple of it.
Quantum == GCD(Interval("research"), GCD(Interval("backtest"), Interval("debug")))

\* Where a submit handler is suspended inside its chain of processPhase
\* calls: phase 0 = no chain, 1..3 = awaiting the setTimeout before message
\* k+1 of that phase, which fires in rem milliseconds; 4 = chain finished.
\* ord numbers the chains in the order they started.
NoRun == [phase |-> 0, k |-> 0, rem |-> 0, ord |-> 0]

Started == {s \in SubIds : runs[s].phase # 0}

Running(s) == runs[s].phase \in 1..Len(PhaseOrder)

\* Time until the earliest pending setTimeout of any chain fires.
MinRem ==
    LET rs == {runs[s].rem : s \in {x \in SubIds : Running(x)}}
    IN  IF rs = {} THEN 0 ELSE CHOOSE r \in rs : \A q \in rs : r <= q

\* The chain whose setTimeout fires next.  The browser fires timers in
\* deadline order.  Two chains started at different instants never share a
\* deadline to the millisecond; when their deadlines fall on the same point of
\* the model's clock grid, the chain that started first is the earlier one.
FiresNext(s) ==
    /\ Running(s)
    /\ runs[s].rem = MinRem
    /\ \A x \in SubIds : Running(x) /\ runs[x].rem = MinRem => runs[s].ord <= runs[x].ord

\* d milliseconds pass: every pending setTimeout comes d closer.
Elapsed(d) ==
    [s \in SubIds |-> IF Running(s) THEN [runs[s] EXCEPT !.rem = @ - d] ELSE runs[s]]

\* ------------------------------------------------------------------------
\* Initial state: the page after DOMContentLoaded
\* ------------------------------------------------------------------------
NoStep == [op |-> "init", class |-> "none", complete |-> FALSE,
           preRetry |-> 0, preTimers |-> {}]

Init ==
    /\ pollInterval = 0
    /\ timers = {}
    /\ retryCount = 0
    /\ spinnerHidden = TRUE
    /\ resultsContent = <<>>
    /\ nsub = 0
    /\ pending = {}
    /\ probes = 0
    /\ phaseClass = [p \in PhaseNames |-> NoClasses]
    /\ messages = [p \in PhaseNames |-> <<>>]
    /\ runs = [s \in SubIds |-> NoRun]
    /\ history = <<>>
    /\ last = NoStep

Step(op, class, complete) ==
    [op |-> op, class |-> class, complete |-> complete,
     preRetry |-> retryCount, preTimers |-> timers]

\* ------------------------------------------------------------------------
\* The submit handler (main.js 182-239)
\* ------------------------------------------------------------------------
\* From the submit event to the suspension at `await fetch('/analyze')`.
Submit ==
    /\ nsub < MaxSubmits
    /\ nsub' = nsub + 1
    /\ pending' = pending \cup {nsub + 1}
    /\ resultsContent' = <<>>
    /\ spinnerHidden' = FALSE
    /\ retryCount' = 0
    /\ last' = Step("submit", "none", FALSE)
    /\ UNCHANGED <<pollInterval, timers, probes, phaseClass, messages, runs, history>>

\* The acknowledgment has status 'success': from the resumption to the first
\* timed wait inside processPhase(researchPhase, ...).
SubmitAck(s) ==
    /\ s \in pending
    /\ pending' = pending \ {s}
    /\ resultsContent' = Append(resultsContent, StatusNode(ProcessingText))
    /\ startPolling(s)
    /\ phaseClass' = updatePhase(phaseClass, PhaseOrder[1], "active")
    /\ messages' = [p \in PhaseNames |-> <<>>]
    /\ runs' = [runs EXCEPT ![s] = [phase |-> 1, k |-> 0, rem |-> Interval(PhaseOrder[1]),
                                     ord |-> Cardinality(Started) + 1]]
    /\ last' = Step("submitAck", "none", FALSE)
    /\ UNCHANGED <<retryCount, spinnerHidden, nsub, probes, history>>

\* Variant: the phase timeline is entered before the acknowledgment is examined.
SubmitFail_StartsPhases(s) ==
    /\ s \in pending
    /\ pending' = pending \ {s}
    /\ handlePollingError("starting")
    /\ phaseClass' = updatePhase(phaseClass, PhaseOrder[1], "active")
    /\ last' = Step("submitFail", "none", FALSE)
    /\ UNCHANGED <<pollInterval, nsub, probes, messages, runs, history>>

\* fetch rejects, the response is not ok, or data.status is not 'success':
\* the catch block runs.
SubmitFail(s) ==
    /\ s \in pending
    /\ pending' = pending \ {s}
    /\ handlePollingError("starting")
    /\ last' = Step("submitFail", "none", FALSE)
    /\ UNCHANGED <<pollInterval, nsub, probes, phaseClass, messages, runs, history>>

\* Variant: the timers of processPhase fire only while a polling interval is live.
PhaseStep_GatedByPolling(s) ==
    /\ timers # {}
    /\ FiresNext(s)
    /\ LET i    == runs[s].phase
           p    == PhaseOrder[i]
           k    == runs[s].k + 1
           rs   == Elapsed(MinRem)
           msgs == [messages EXCEPT ![p] = Append(@, [run |-> s, msg |-> k])]
           done == updatePhase(phaseClass, p, "complete")
       IN  IF k < ScriptLen
           THEN /\ messages' = msgs
                /\ runs' = [rs EXCEPT ![s] = [@ EXCEPT !.k = k, !.rem = Interval(p)]]
                /\ UNCHANGED phaseClass
           ELSE IF i < Len(PhaseOrder)
           THEN /\ phaseClass' = updatePhase(done, PhaseOrder[i + 1], "active")
                /\ messages' = [msgs EXCEPT ![PhaseOrder[i + 1]] = <<>>]
                /\ runs' = [rs EXCEPT ![s] = [@ EXCEPT !.phase = i + 1, !.k = 0,
                                                       !.rem = Interval(PhaseOrder[i + 1])]]
           ELSE /\ phaseClass' = done
                /\ messages' = msgs
                /\ runs' = [rs EXCEPT ![s] = [@ EXCEPT !.phase = i + 1, !.k = 0, !.rem = 0]]
    /\ last' = Step("phase", "none", FALSE)
    /\ UNCHANGED <<pollVars, nsub, pending, history>>

\* The earliest pending setTimeout of processPhase fires, for the chain of
\* submission s: the message is appended; after the last message of a phase the
\* phase is marked complete and, in the same task, the next processPhase call
\* runs up to its first wait.
PhaseStep(s) ==
    /\ FiresNext(s)
    /\ LET i    == runs[s].phase
           p    == PhaseOrder[i]
           k    == runs[s].k + 1
           rs   == Elapsed(MinRem)
           msgs == [messages EXCEPT ![p] = Append(@, [run |-> s, msg |-> k])]
           done == updatePhase(phaseClass, p, "complete")
       IN  IF k < ScriptLen
           THEN /\ messages' = msgs
                /\ runs' = [rs EXCEPT ![s] = [@ EXCEPT !.k = k, !.rem = Interval(p)]]
                /\ UNCHANGED phaseClass
           ELSE IF i < Len(PhaseOrder)
           THEN /\ phaseClass' = updatePhase(done, PhaseOrder[i + 1], "active")
                /\ messages' = [msgs EXCEPT ![PhaseOrder[i + 1]] = <<>>]
                /\ runs' = [rs EXCEPT ![s] = [@ EXCEPT !.phase = i + 1, !.k = 0,
                                                       !.rem = Interval(PhaseOrder[i + 1])]]
           ELSE /\ phaseClass' = done
                /\ messages' = msgs
                /\ runs' = [rs EXCEPT ![s] = [@ EXCEPT !.phase = i + 1, !.k = 0, !.rem = 0]]
    /\ last' = Step("phase", "none", FALSE)
    /\ UNCHANGED <<pollVars, nsub, pending, history>>

\* Time passes while a submission awaits its acknowledgment, without reaching
\* the next setTimeout deadline (only then does the moment matter: it fixes
\* where the earlier chains stand when the new one starts).
Wait(d) ==
    /\ pending # {}
    /\ d < MinRem
    /\ runs' = Elapsed(d)
    /\ last' = Step("wait", "none", FALSE)
    /\ UNCHANGED <<pollVars, nsub, pending, phaseClass, messages, history>>

\* ------------------------------------------------------------------------
\* The polling interval callback (main.js 245-291)
\* ------------------------------------------------------------------------
\* Interval t fires: the callback runs to `await fetch('/results')`.
Tick(t) ==
    /\ t \in timers
    /\ probes < MaxInFlight
    /\ probes' = probes + 1
    /\ last' = Step("tick", "none", FALSE)
    /\ UNCHANGED <<pollInterval, timers, retryCount, spinnerHidden, resultsContent,
                   nsub, pending, phaseClass, messages, runs, history>>

\* if (data.status === 'success' && Array.isArray(data.results) && data.results.length > 0)
Classify(r) ==
    IF r.kind = "json" /\ r.status = "success" /\ Len(r.results) > 0 THEN "results"
    ELSE IF r.kind = "json" THEN "empty"
    ELSE IF r.kind = "timeout" THEN "timeout"
    ELSE "error"

\* The wording handed to handlePollingError (main.js 281, 286, 288)
PollMessage(class) ==
    IF class = "empty" THEN "still processing"
    ELSE IF class = "timeout" THEN "still working"
    ELSE "checking"

\* Variant: job completion hides the spinner but leaves the interval running.
HandleResults_KeepsTimer(r) ==
    /\ retryCount' = 0
    /\ resultsContent' = updateResults(removeProcessingMsg(resultsContent), r.results)
    /\ UNCHANGED timers
    /\ IF r.is_complete THEN spinnerHidden' = TRUE ELSE UNCHANGED spinnerHidden

\* The success branch (main.js 260-278)
HandleResults(r) ==
    /\ retryCount' = 0
    /\ resultsContent' = updateResults(removeProcessingMsg(resultsContent), r.results)
    /\ IF r.is_complete
       THEN /\ timers' = clearInterval(timers, pollInterval)
            /\ spinnerHidden' = TRUE
       ELSE UNCHANGED <<timers, spinnerHidden>>

\* A probe gets its response r (or its failure): the callback resumes and
\* runs to its end.
ProbeResume(r) ==
    /\ probes > 0
    /\ probes' = probes - 1
    /\ IF Classify(r) = "results"
       THEN HandleResults(r)
       ELSE handlePollingError(PollMessage(Classify(r)))
    /\ last' = Step("probe", Classify(r), r.is_complete)
    /\ UNCHANGED <<pollInterval, nsub, pending, phaseClass, messages, runs>>

ProbeDone(r) == ProbeResume(r) /\ UNCHANGED history

\* ------------------------------------------------------------------------
\* Specifications
\* ------------------------------------------------------------------------
SubmitStep == Submit \/ (\E s \in SubIds : SubmitAck(s)) \/ (\E s \in SubIds : SubmitFail(s))

PollStep == (\E t \in SubIds : Tick(t)) \/ (\E r \in Responses : ProbeDone(r))

\* The moments, in milliseconds, at which time is observed between two deadlines.
Moments == {Quantum * i : i \in 1..(Interval("backtest") \div Quantum)}

PhaseTimer == (\E s \in SubIds : PhaseStep(s)) \/ (\E d \in Moments : Wait(d))

Next == SubmitStep \/ PollStep \/ PhaseTimer

Spec == Init /\ [][Next]_vars

\* The polling side alone: the timers of processPhase are left pending.  No
\* action of NextPoll reads phaseClass, messages or runs, and PhaseStep and
\* Wait leave pollVars, nsub and pending unchanged, so what a behaviour of
\* Spec does to pollVars, nsub and pending, a behaviour of SpecPoll does too.
NextPoll == SubmitStep \/ PollStep

SpecPoll == Init /\ [][NextPoll]_vars

\* The phase timeline alone: no polling interval fires.  Tick and ProbeDone
\* leave phaseClass, messages and runs unchanged.
NextPhase == SubmitStep \/ PhaseTimer

SpecPhase == Init /\ [][NextPhase]_vars

\* The result store alone: sequences of updateResult calls on a store that is
\* empty or holds the processing message of an acknowledged submission.
InitStore ==
    /\ pollInterval = 0
    /\ timers = {}
    /\ retryCount = 0
    /\ spinnerHidden = FALSE
    /\ resultsContent \in {<<>>, <<StatusNode(ProcessingText)>>}
    /\ nsub = 0
    /\ pending = {}
    /\ probes = 0
    /\ phaseClass = [p \in PhaseNames |-> NoClasses]
    /\ messages = [p \in PhaseNames |-> <<>>]
    /\ runs = [s \in SubIds |-> NoRun]
    /\ history = <<>>
    /\ last = NoStep

Upsert(e) ==
    /\ Len(history) < MaxUpserts
    /\ resultsContent' = updateResult(resultsContent, e)
    /\ history' = Append(history, e)
    /\ last' = Step("upsert", "none", FALSE)
    /\ UNCHANGED <<pollInterval, timers, retryCount, spinnerHidden, nsub, pending,
                   probes, phaseClass, messages, runs>>

NextStore == \E e \in Entries : Upsert(e)

SpecStore == InitStore /\ [][NextStore]_vars

\* One submission and everything it sets off: the polling interval and the
\* chain of processPhase calls run side by side.  The browser fires every
\* pending setTimeout, so the phase timers are scheduled fairly; nothing is
\* assumed about the polling side.
SubmitOnce == nsub = 0 /\ Submit

NextRun ==
    \/ SubmitOnce
    \/ \E s \in SubIds : SubmitAck(s)
    \/ \E s \in SubIds : SubmitFail(s)
    \/ PollStep
    \/ \E s \in SubIds : PhaseStep(s)

FairRun == WF_vars(\E s \in SubIds : PhaseStep(s))

SpecRun == Init /\ [][NextRun]_vars /\ FairRun

\* One acknowledged submission whose probes never come back with results:
\* empty or non-success bodies, HTTP errors, timeouts, network errors.  The
\* interval fires as long as it is live and every fetch settles (a response,
\* or the abort of AbortSignal.timeout), so ticks and probe completions are
\* scheduled fairly.
FailResponses == {r \in Responses : Classify(r) # "results"}

FailProbe == \E r \in FailResponses : ProbeDone(r)

NextFail ==
    \/ SubmitOnce
    \/ \E s \in SubIds : SubmitAck(s)
    \/ \E t \in SubIds : Tick(t)
    \/ FailProbe
    \/ \E s \in SubIds : PhaseStep(s)

FairFail == WF_vars(\E t \in SubIds : Tick(t)) /\ WF_vars(FailProbe)

SpecFail == Init /\ [][NextFail]_vars /\ FairFail

\* One acknowledged submission polled by a scripted server: three bodies with
\* status 'success' and no results, then one entry for strategy 1 with the job
\* unfinished, then strategy 1 again with other content and the job finished.
\* Each probe is answered before the next tick.
EmptyBodies == {r \in Responses : r.kind = "json" /\ r.status = "success" /\ r.results = <<>>}

Body(status, payload, complete) ==
    [kind |-> "json", status |-> "success",
     results |-> <<[strategy_number |-> 1, status |-> status, payload |-> payload]>>,
     is_complete |-> complete]

\* The bodies the server may answer the next probe with, given the answers so far.
TraceResponses(h) ==
    IF Len(h) < 3 THEN EmptyBodies
    ELSE IF Len(h) = 3
    THEN {Body(st, pl, FALSE) : st \in {"success", "error"}, pl \in Payloads}
    ELSE IF Len(h) = 4
    THEN {Body(st, pl, TRUE) : st \in {"success", "error"},
                               pl \in Payloads \ {h[4].results[1].payload}}
    ELSE {}

TraceTick ==
    /\ probes = 0
    /\ TraceResponses(history) # {}
    /\ \E t \in SubIds : Tick(t)

TraceProbe ==
    \E r \in TraceResponses(history) :
        /\ ProbeResume(r)
        /\ history' = Append(history, r)

NextTrace ==
    \/ SubmitOnce
    \/ \E s \in SubIds : SubmitAck(s)
    \/ TraceTick
    \/ TraceProbe
    \/ \E s \in SubIds : PhaseStep(s)

SpecTrace == Init /\ [][NextTrace]_vars

\* ------------------------------------------------------------------------
\* Properties
\* ------------------------------------------------------------------------
\* C1: every completed probe either resets retryCount to 0 (HTTP-ok, status
\* 'success', non-empty results) or increases it by exactly 1 (every other
\* outcome, timeouts included); no outcome leaves it unchanged.
C1_ProbeCountsOnce ==
    last.op = "probe" =>
        IF last.class = "results"
        THEN retryCount = 0
        ELSE retryCount = last.preRetry + 1

\* A success-with-results probe arriving after three counted failures.
C1_Witness ==
    /\ last.op = "probe"
    /\ last.class = "results"
    /\ last.preRetry = 3
    /\ retryCount = 0

\* C2: under every interleaving of ticks and probe completions, probes still
\* in flight when the interval is cleared included, retryCount never exceeds
\* MAX_RETRIES (and so the exhausted transition is taken once).
C2_RetryBounded == retryCount <= MAX_RETRIES

\* C3: a success-with-results probe with is_complete = true leaves no interval
\* live and the spinner hidden, whatever retryCount was before it; one with
\* is_complete = false leaves the live intervals as they were.
C3_CompleteTerminates ==
    last.op = "probe" /\ last.class = "results" =>
        IF last.complete
        THEN pollInterval \notin timers /\ timers = {} /\ spinnerHidden
        ELSE timers = last.preTimers

\* The completing probe arrives with the interval live and retryCount at MAX_RETRIES - 1.
C3_Witness ==
    /\ last.op = "probe"
    /\ last.class = "results"
    /\ last.complete
    /\ last.preRetry = MAX_RETRIES - 1
    /\ last.preTimers # {}
    /\ timers = {}

HistoryIds == {history[i].strategy_number : i \in 1..Len(history)}

\* The entry upserted most recently with the given id.
LatestEntry(id) ==
    LET at == {i \in 1..Len(history) : history[i].strategy_number = id}
    IN  history[CHOOSE i \in at : \A j \in at : j <= i]

NodesWithId(id) ==
    {i \in 1..Len(resultsContent) :
        resultsContent[i].tag = "result" /\ resultsContent[i].id = id}

\* C4: after any sequence of updateResult calls the store holds exactly one
\* node per upserted id, rendered in the layout and with the content of the
\* latest entry of that id; upserting the latest entry once more changes nothing.
C4_UpsertLastWriteWins ==
    /\ \A id \in HistoryIds :
          /\ Cardinality(NodesWithId(id)) = 1
          /\ \A i \in NodesWithId(id) :
                /\ resultsContent[i].layout = LatestEntry(id).status
                /\ resultsContent[i].payload = LatestEntry(id).payload
                /\ resultsContent[i].links =
                      IF LatestEntry(id).status = "success"
                      THEN <<DownloadText, DownloadText>> ELSE <<>>
    /\ history # <<>> =>
          updateResult(resultsContent, history[Len(history)]) = resultsContent

\* An id upserted as an error entry and later as a success entry with other content.
C4_Witness ==
    /\ Len(history) = 3
    /\ history[1].strategy_number = history[3].strategy_number
    /\ history[1].status = "error"
    /\ history[3].status = "success"
    /\ history[1].payload # history[3].payload
    /\ history[2].strategy_number # history[1].strategy_number

RECURSIVE FirstSeen(_, _)
FirstSeen(h, seen) ==
    IF h = <<>> THEN <<>>
    ELSE IF Head(h).strategy_number \in seen THEN FirstSeen(Tail(h), seen)
    ELSE <<Head(h).strategy_number>>
         \o FirstSeen(Tail(h), seen \cup {Head(h).strategy_number})

RECURSIVE NodeIds(_)
NodeIds(rc) ==
    IF rc = <<>> THEN <<>>
    ELSE (IF Head(rc).tag = "result" THEN <<Head(rc).id>> ELSE <<>>) \o NodeIds(Tail(rc))

\* C5: the result nodes stand in the order in which their ids were first
\* upserted (an absent id is appended at the end, a present id moves nothing).
C5_FirstSeenOrder == NodeIds(resultsContent) = FirstSeen(history, {})

\* Id 2 first, then id 1, then id 2 again: the nodes stay in the order 2, 1.
C5_Witness ==
    /\ Len(history) = 3
    /\ history[1].strategy_number = 2
    /\ history[2].strategy_number = 1
    /\ history[3].strategy_number = 2
    /\ NodeIds(resultsContent) = <<2, 1>>

\* C6: a failing submission creates no interval, issues no probe and leaves
\* every phase and every chain of processPhase as it was.
C6_FailStartsNothing ==
    [][last'.op = "submitFail" =>
          /\ timers' \subseteq timers
          /\ pollInterval' = pollInterval
          /\ probes' = probes
          /\ UNCHANGED <<phaseClass, messages, runs>>]_vars

\* The first submission has failed: no interval, no probe, no phase active.
C6_Witness ==
    /\ last.op = "submitFail"
    /\ nsub = 1
    /\ timers = {}
    /\ pollInterval = 0
    /\ probes = 0
    /\ \A p \in PhaseNames : ~phaseClass[p].active
    /\ \A s \in SubIds : runs[s] = NoRun

\* C7: a failing submission is not counted as a polling attempt: retryCount
\* keeps its value and no attempt-scoped status message is rendered.
C7_FailNotCounted ==
    last.op = "submitFail" =>
        /\ retryCount = last.preRetry
        /\ \A i \in 1..Len(resultsContent) : resultsContent[i].text[2] = 0

\* C8: at most one polling interval is live, and it is the one pollInterval
\* holds; right after an acknowledged submit the live interval is the new one.
C8_OneTimer ==
    /\ Cardinality(timers) <= 1
    /\ timers \subseteq {pollInterval}
    /\ last.op = "submitAck" => timers = {pollInterval} /\ pollInterval \notin last.preTimers

\* A submit is acknowledged while the interval of the previous session is live.
C8_Witness ==
    /\ last.op = "submitAck"
    /\ last.preTimers # {}
    /\ Cardinality(timers) = 1

ActivePhases == {p \in PhaseNames : phaseClass[p].active}

\* C9: at most one of the three phases carries the 'active' class.
C9_OneActive == Cardinality(ActivePhases) <= 1

\* Two chains of processPhase overlap, standing in different phases.
C9_Witness ==
    /\ \E s, x \in SubIds : Running(s) /\ Running(x) /\ runs[s].phase > runs[x].phase
    /\ last.op = "phase"
    /\ Cardinality(ActivePhases) = 1

\* C10: a phase that is marked complete and is no longer active is never
\* marked active again.
C10_NeverReactivated ==
    [][\A p \in PhaseNames :
          phaseClass[p].complete /\ ~phaseClass[p].active => ~phaseClass'[p].active]_vars

\* C11: once a later submission has been acknowledged (which resets every
\* message container), no container holds a message appended by the chain of
\* an earlier submission.
C11_NoStaleWrite ==
    \A p \in PhaseNames : \A i \in 1..Len(messages[p]) :
        \A x \in Started : runs[x].ord <= runs[messages[p][i].run].ord

\* C15 (as stated): for any two entries with different ids, applying
\* updateResult to them in either order from the same store yields the same
\* store: same nodes, same contents, same node order.
C15_Commute ==
    \A a, b \in Entries :
        a.strategy_number # b.strategy_number =>
            updateResult(updateResult(resultsContent, a), b)
                = updateResult(updateResult(resultsContent, b), a)

\* C15 (amended): for any two entries with different ids, both orders yield
\* the same nodes with the same contents; the node order is the same too
\* whenever at least one of the two ids is already in the store.  When both
\* ids are new, each order appends its first entry first.
C15_CommuteUpToOrder ==
    \A a, b \in Entries :
        a.strategy_number # b.strategy_number =>
            LET ab == updateResult(updateResult(resultsContent, a), b)
                ba == updateResult(updateResult(resultsContent, b), a)
            IN  /\ Len(ab) = Len(ba)
                /\ {ab[i] : i \in 1..Len(ab)} = {ba[i] : i \in 1..Len(ba)}
                /\ (getElementById(resultsContent, a.strategy_number) # 0
                    \/ getElementById(resultsContent, b.strategy_number) # 0) => ab = ba

\* A store built by upserts that holds one id and lacks another.
C15_Witness ==
    /\ Len(history) > 0
    /\ \E i, j \in Ids :
        /\ getElementById(resultsContent, i) # 0
        /\ getElementById(resultsContent, j) = 0

\* C16: once the only session so far has reached a terminal state (its
\* interval was created and is cleared), no probe of that session, one still
\* in flight included, changes retryCount or anything inside #resultsContent
\* (status message, notice, result entries).
C16_TerminalIsFinal ==
    [][(/\ nsub = 1
        /\ pending = {}
        /\ pollInterval # 0
        /\ timers = {}
        /\ last'.op = "probe") => UNCHANGED <<retryCount, resultsContent>>]_vars

\* C17: when the interval of a new session is created (the acknowledgment of
\* the submission has just been handled), retryCount is 0.
C17_FreshSession == last.op = "submitAck" => retryCount = 0

ResultNodes(rc) == SelectSeq(rc, LAMBDA n : n.tag = "result")

\* C18: a probe that is not success-with-results and does not exhaust the
\* budget only maintains the status message: every rendered result entry,
\* its download links included, is left as it was.
C18_StatusLeavesEntries ==
    [][(/\ last'.op = "probe"
        /\ last'.class # "results"
        /\ retryCount' < MAX_RETRIES)
            => ResultNodes(resultsContent') = ResultNodes(resultsContent)]_vars

\* C19: when a probe takes retryCount to MAX_RETRIES, every result entry
\* rendered before is still in the store afterwards, with its layout and
\* payload.
C19_ExhaustionKeepsResults ==
    [][(/\ last'.op = "probe"
        /\ retryCount < MAX_RETRIES
        /\ retryCount' >= MAX_RETRIES)
            => \A i \in 1..Len(resultsContent) :
                   resultsContent[i].tag = "result" =>
                       \E j \in 1..Len(resultsContent') :
                           /\ resultsContent'[j].tag = "result"
                           /\ resultsContent'[j].id = resultsContent[i].id
                           /\ resultsContent'[j].layout = resultsContent[i].layout
                           /\ resultsContent'[j].payload = resultsContent[i].payload]_vars

\* C20: whenever the spinner is visible, a submission awaits its
\* acknowledgment or a polling interval is live.
C20_SpinnerMeansBusy == ~spinnerHidden => (pending # {} \/ timers # {})

\* The scripted messages of a phase, in scripted order, as appended by chain s.
Scripted(s) == [k \in 1..ScriptLen |-> [run |-> s, msg |-> k]]

RunComplete(s) ==
    /\ runs[s].phase = Len(PhaseOrder) + 1
    /\ \A p \in PhaseNames : phaseClass[p].complete /\ messages[p] = Scripted(s)

\* C12: once the phase run of a submission has started, it eventually marks
\* research, backtest and debug complete whatever the polling side does
\* meanwhile; no tick and no probe completion changes the phase state; and,
\* with no other submission during the run, every phase's message log ends
\* holding exactly its scripted messages in scripted order.
C12_RunCompletes ==
    /\ [][last'.op \in {"tick", "probe"} => UNCHANGED phaseVars]_vars
    /\ \A s \in SubIds : Running(s) ~> RunComplete(s)

\* The run finishes after the polling session gave up.
C12_Witness ==
    /\ last.op = "phase"
    /\ \E s \in SubIds : RunComplete(s)
    /\ retryCount >= MAX_RETRIES
    /\ timers = {}

\* C13: along the scripted trace, retryCount is 3 after probe 3 with no entry
\* rendered; after probe 4 it is 0, strategy 1 is rendered and the interval is
\* live; after probe 5 the store holds exactly one node for strategy 1, with
\* the new content, and no interval is live.
C13_Trace ==
    LET nodes == ResultNodes(resultsContent)
        shows(e) ==
            /\ Len(nodes) = 1
            /\ nodes[1].id = e.strategy_number
            /\ nodes[1].layout = e.status
            /\ nodes[1].payload = e.payload
    IN  /\ Len(history) = 3 => retryCount = 3 /\ nodes = <<>>
        /\ Len(history) = 4 =>
               /\ retryCount = 0
               /\ shows(history[4].results[1])
               /\ pollInterval \in timers
        /\ Len(history) = 5 =>
               /\ shows(history[5].results[1])
               /\ timers = {}

\* The fifth probe has just been answered.
C13_Witness ==
    /\ Len(history) = 5
    /\ last.op = "probe"
    /\ last.complete
    /\ history[5].results[1].payload # history[4].results[1].payload

Exhausted ==
    /\ timers = {}
    /\ spinnerHidden
    /\ resultsContent = <<NoticeNode>>

\* C14: when no probe after the acknowledgment ever comes back with results,
\* the session eventually is exhausted-terminal (interval cleared, spinner
\* hidden, notice shown) and stays so; the interval is cleared by the probe
\* that takes retryCount to MAX_RETRIES; no result entry is ever rendered.
C14_AllFailExhausts ==
    /\ (pollInterval # 0) ~> [](Exhausted /\ retryCount >= MAX_RETRIES)
    /\ [][timers # {} /\ timers' = {} =>
              last'.op = "probe" /\ retryCount' = MAX_RETRIES]_vars
    /\ [](ResultNodes(resultsContent) = <<>>)

\* The tenth probe in a row times out.
C14_Witness ==
    /\ last.op = "probe"
    /\ last.class = "timeout"
    /\ last.preRetry = MAX_RETRIES - 1
    /\ last.preTimers # {}
    /\ Exhausted

====
